---- MODULE Spec2Model ----
(***************************************************************************)
(* Block Bite (src/src/main.rs): the simulation core of a grid snake game  *)
(* written as Bevy systems.  The model follows one run of the App:         *)
(* Startup has run (spawn_snake), and every frame runs the Update systems  *)
(* snake_movement_input, snake_movement, snake_eating, snake_growth and    *)
(* food_spawner, then applies the deferred Commands they queued.           *)
(*                                                                         *)
(* Scheduling, as main() declares it (lines 292-305): the only ordering    *)
(* constraint is snake_movement_input.before(snake_movement).  The tuple   *)
(* is not chained, so snake_movement, snake_eating and snake_growth run in *)
(* an order the executor picks, frame by frame.  food_spawner only queues  *)
(* a spawn command and snake_movement_input only writes the heading, which *)
(* snake_eating and snake_growth never read, so their place in the frame   *)
(* is not observable: the model runs food_spawner first and                *)
(* snake_movement_input second.                                            *)
(*                                                                         *)
(* Engine behaviour the source relies on:                                  *)
(*  - Commands are deferred: an entity spawned or despawned by a system    *)
(*    gets / loses its components when the schedule applies the queues,    *)
(*    at the end of Update (no system here is ordered after a system with  *)
(*    Commands, so no earlier sync point exists).  commands.spawn(..).id() *)
(*    returns the reserved Entity at once.                                 *)
(*  - Events<GrowthEvent> is double buffered: each frame's update drops    *)
(*    the older buffer.  The reader's iterator advances the reader's       *)
(*    cursor one event per next().                                         *)
(*  - ButtonInput<KeyCode> is refreshed from the window's key events      *)
(*    before Update: any set of arrow keys may be held at a sample.        *)
(*  - on_timer(d) ticks a repeating Timer by the frame's delta and lets    *)
(*    the system run when the timer just finished.                         *)
(*  - The imports (ButtonInput, render::color::Color) are those of Bevy     *)
(*    0.13, whose semantics the points above follow.                       *)
(*  - Option::unwrap on None and Result::unwrap on Err panic; the panic    *)
(*    ends the App.                                                        *)
(***************************************************************************)
EXTENDS Integers, Sequences, FiniteSets

VARIABLES
    segments,            \* SnakeSegments: Vec<Entity>, head first
    position,            \* Position component of each segment entity (None: not attached yet)
    direction,           \* SnakeHead.direction of the head entity
    last_tail_position,  \* LastTailPosition: Option<Position>
    food,                \* the Food entities: how many have their Position at each cell
    growth_events,       \* Events<GrowthEvent> as seen by snake_growth's reader: unread in buffer a (older) and b (newer)
    commands,            \* deferred Commands queued in this frame
    keyboard_input,      \* ButtonInput<KeyCode>: the arrow keys held (followed in SpecInput; Spec draws them at each sample)
    delta,               \* Time::delta() of this frame, in ms
    move_timer,          \* elapsed ms of snake_movement's on_timer
    food_timer,          \* elapsed ms of food_spawner's on_timer
    ran,                 \* Update systems that have run in this frame
    panicked,            \* a system panicked: the App is gone
    consumed,            \* history: GrowthEvents read by snake_growth so far
    frame_start          \* history: the simulation state this frame started from (followed in SpecFrame)

vars == <<segments, position, direction, last_tail_position, food, growth_events,
          commands, keyboard_input, delta, move_timer, food_timer, ran, panicked,
          consumed, frame_start>>

----------------------------------------------------------------------------
(* Bounds of the model *)

\* longest Segment Chain explored
MaxLen == 3
\* most Food entities alive at once
MaxFood == 2
\* the head is followed while it stays in the columns WindowCols and the rows StartY..MaxRow
MaxRow == 4

(* Program constants *)
ARENA_WIDTH == 10
ARENA_HEIGHT == 10
MOVE_PERIOD == 150
\* fault variant: 0.1 s instead of 1.0 s
FOOD_PERIOD_Tenth == 1000 \div 10
FOOD_PERIOD == 1000
StartX == 3
StartY == 3

\* frame times (ms) the environment may deliver
Deltas == {100, 200}

----------------------------------------------------------------------------
(* Data model *)

None == <<>>
Some(v) == <<v>>
unwrap(o) == o[1]

Pos(px, py) == [x |-> px, y |-> py]

Directions == {"Left", "Up", "Right", "Down"}
Keys == {"ArrowLeft", "ArrowDown", "ArrowUp", "ArrowRight"}

\* the entity spawn_snake gives SnakeHead to; segment entities are numbered in spawn order
HeadEntity == 1
SegmentEntities == 1..MaxLen

Systems == {"food_spawner", "snake_movement_input", "snake_movement", "snake_eating", "snake_growth"}

WindowCols == {StartX, StartX + 1}
InWindow(p) == p.x \in WindowCols /\ p.y \in StartY..MaxRow

\* cells food_spawner's random draw is followed to (all within the arena)
FoodCells == {c \in {Pos(StartX, StartY), Pos(StartX, StartY + 1)} :
                 /\ c.x \in 0..(ARENA_WIDTH - 1)
                 /\ c.y \in 0..(ARENA_HEIGHT - 1)}

\* a Food entity carries nothing but its Position: the model counts them per cell
NoFood == [c \in FoodCells |-> 0]

RECURSIVE SumOver(_, _)
SumOver(fd, cells) ==
    IF cells = {} THEN 0
    ELSE LET c == CHOOSE k \in cells : TRUE
         IN  fd[c] + SumOver(fd, cells \ {c})

FoodCount(fd) == SumOver(fd, DOMAIN fd)

\* segment: spawn_segment's (entity, position) inserts; despawn / food: the Food
\* entities to despawn / to spawn, per cell
NoCommands == [segment |-> {}, despawn |-> NoFood, food |-> NoFood]

----------------------------------------------------------------------------
(* Direction::oppsite, lines 72-81 *)
oppsite(d) ==
    CASE d = "Left"  -> "Right"
      [] d = "Right" -> "Left"
      [] d = "Up"    -> "Down"
      [] d = "Down"  -> "Up"

\* fault variant: Up is tested before Down
KeyDirection_UpBeforeDown(held, current) ==
    IF "ArrowLeft" \in held THEN "Left"
    ELSE IF "ArrowUp" \in held THEN "Up"
    ELSE IF "ArrowDown" \in held THEN "Down"
    ELSE IF "ArrowRight" \in held THEN "Right"
    ELSE current

(* the if / else-if chain of snake_movement_input, lines 164-174 *)
KeyDirection(held, current) ==
    IF "ArrowLeft" \in held THEN "Left"
    ELSE IF "ArrowDown" \in held THEN "Down"
    ELSE IF "ArrowUp" \in held THEN "Up"
    ELSE IF "ArrowRight" \in held THEN "Right"
    ELSE current

\* fault variant: the reversal test is missing
NewDirection_NoReversalTest(held, current) == KeyDirection(held, current)

(* the heading snake_movement_input leaves in the head, lines 164-177 *)
NewDirection(held, current) ==
    LET dir == KeyDirection(held, current)
    IN  IF dir # oppsite(current) THEN dir ELSE current

\* fault variant: y grows downwards, as on a screen
MoveHead_ScreenY(p, d) ==
    CASE d = "Left"  -> Pos(p.x - 1, p.y)
      [] d = "Right" -> Pos(p.x + 1, p.y)
      [] d = "Up"    -> Pos(p.x, p.y - 1)
      [] d = "Down"  -> Pos(p.x, p.y + 1)

(* the match on head.direction in snake_movement, lines 193-206 *)
MoveHead(p, d) ==
    CASE d = "Left"  -> Pos(p.x - 1, p.y)
      [] d = "Right" -> Pos(p.x + 1, p.y)
      [] d = "Up"    -> Pos(p.x, p.y + 1)
      [] d = "Down"  -> Pos(p.x, p.y - 1)

(* segment_positions of snake_movement, lines 188-191: the Position of every
   chain element, in chain order (defined when every element has one) *)
SegmentPositions(segs, posn) == [i \in 1..Len(segs) |-> unwrap(posn[segs[i]])]

\* fault variant: the zip over the trailing segments is missing
MovedPositions_HeadOnly(segs, posn, d) ==
    [posn EXCEPT ![HeadEntity] = Some(MoveHead(unwrap(posn[HeadEntity]), d))]

(* the Position components after snake_movement's writes, lines 192-212: the
   head entity's step, then zip(segment_positions, segments.skip(1)) *)
MovedPositions(segs, posn, d) ==
    LET snapshot == SegmentPositions(segs, posn)
        stepped  == [posn EXCEPT ![HeadEntity] = Some(MoveHead(unwrap(posn[HeadEntity]), d))]
        Followers(e) == {i \in 2..Len(segs) : segs[i] = e}
        Last(S)  == CHOOSE i \in S : \A j \in S : j <= i
    IN  [e \in DOMAIN posn |->
            IF Followers(e) # {} THEN Some(snapshot[Last(Followers(e)) - 1])
            ELSE stepped[e]]

\* fault variant: first() instead of last()
TailBefore_First(segs, posn) == SegmentPositions(segs, posn)[1]

(* what snake_movement caches, line 213 *)
TailBefore(segs, posn) == SegmentPositions(segs, posn)[Len(segs)]

\* fault variant: only x is compared
EatenFood_SameColumn(fd, posn) ==
    [c \in DOMAIN fd |-> IF c.x = unwrap(posn[HeadEntity]).x THEN fd[c] ELSE 0]

(* the Food entities snake_eating matches, lines 256-258 *)
EatenFood(fd, posn) == [c \in DOMAIN fd |-> IF Some(c) = posn[HeadEntity] THEN fd[c] ELSE 0]

\* fault variant: the reader is drained
ReadOne_Drain(ev) == [a |-> 0, b |-> 0]

(* growth_reader.iter().next(), line 272: the reader takes the oldest unread event *)
ReadOne(ev) ==
    IF ev.a > 0 THEN [ev EXCEPT !.a = @ - 1] ELSE [ev EXCEPT !.b = @ - 1]

Unread(ev) == ev.a + ev.b

\* fault variant: the position argument is dropped for a default
SpawnSegment_Origin(e, p) == [entity |-> e, position |-> Pos(0, 0)]

(* spawn_segment, lines 127-140: the reserved entity and the Position its
   deferred insert attaches *)
SpawnSegment(e, p) == [entity |-> e, position |-> p]

\* fault variant: the old tail's handle is pushed again
Push_TailAgain(segs, e) == Append(segs, segs[Len(segs)])

\* fault variant: insert(0, ..) instead of push(..)
Push_Front(segs, e) == <<e>> \o segs

(* segments.push(..), line 273 *)
Push(segs, e) == Append(segs, e)

(* Timer::tick in repeating mode, behind on_timer, lines 296 and 304 *)
TimerFires(elapsed, dt, period) == elapsed + dt >= period
TimerAfter(elapsed, dt, period) == (elapsed + dt) % period

----------------------------------------------------------------------------
(* the resources main() inserts, lines 287-289 and 307, and the engine's state
   before the first frame: no food, no event, no command, timers at zero *)
Idle ==
    /\ food = NoFood
    /\ growth_events = [a |-> 0, b |-> 0]
    /\ commands = NoCommands
    /\ move_timer = 0
    /\ food_timer = 0
    /\ panicked = FALSE
    /\ consumed = 0
    /\ frame_start = None

(* State after Startup (spawn_snake and its deferred commands), at the first
   frame's Update; the first frame's Time::delta() is zero *)
Init ==
    /\ segments = <<1, 2>>
    /\ position = [e \in SegmentEntities |->
                      IF e = 1 THEN Some(Pos(StartX, StartY))
                      ELSE IF e = 2 THEN Some(Pos(StartX, StartY - 1))
                      ELSE None]
    /\ direction = "Up"
    /\ last_tail_position = None
    /\ Idle
    /\ keyboard_input = {}
    /\ delta = 0
    /\ ran = {}

Running(system) == ~panicked /\ system \notin ran

(* food_spawner.run_if(on_timer(1.0 s)), lines 142-157 and 302-305 *)
food_spawner ==
    /\ Running("food_spawner")
    /\ UNCHANGED frame_start
    /\ ran = {}
    /\ food_timer' = TimerAfter(food_timer, delta, FOOD_PERIOD)
    /\ IF TimerFires(food_timer, delta, FOOD_PERIOD)
       THEN /\ FoodCount(food) < MaxFood
            /\ \E c \in FoodCells :
                 commands' = [commands EXCEPT !.food[c] = @ + 1]
       ELSE UNCHANGED commands
    /\ ran' = ran \cup {"food_spawner"}
    /\ UNCHANGED <<segments, position, direction, last_tail_position, food, growth_events,
                   keyboard_input, delta, move_timer, panicked, consumed>>

(* snake_movement_input, lines 159-179, sampling the held keys *)
snake_movement_input(held) ==
    /\ Running("snake_movement_input")
    /\ UNCHANGED frame_start
    /\ ran = {"food_spawner"}
    /\ direction' = NewDirection(held, direction)
    /\ ran' = ran \cup {"snake_movement_input"}
    /\ UNCHANGED <<segments, position, last_tail_position, food, growth_events, commands,
                   keyboard_input, delta, move_timer, food_timer, panicked, consumed>>

(* snake_movement.run_if(on_timer(0.150 s)), lines 181-215 and 296 *)
snake_movement ==
    /\ Running("snake_movement")
    /\ UNCHANGED frame_start
    /\ "snake_movement_input" \in ran
    /\ move_timer' = TimerAfter(move_timer, delta, MOVE_PERIOD)
    /\ ran' = ran \cup {"snake_movement"}
    /\ IF ~TimerFires(move_timer, delta, MOVE_PERIOD)
       THEN UNCHANGED <<position, last_tail_position, panicked>>
       ELSE IF segments = <<>> \/ \E i \in 1..Len(segments) : position[segments[i]] = None
       THEN \* positions.get_mut(*e).unwrap() or segment_positions.last().unwrap() panics
            /\ panicked' = TRUE
            /\ UNCHANGED <<position, last_tail_position>>
       ELSE /\ position' = MovedPositions(segments, position, direction)
            /\ last_tail_position' = Some(TailBefore(segments, position))
            /\ UNCHANGED panicked
    /\ UNCHANGED <<segments, direction, food, growth_events, commands, keyboard_input,
                   delta, food_timer, consumed>>

(* snake_eating, lines 250-264 *)
snake_eating ==
    /\ Running("snake_eating")
    /\ UNCHANGED frame_start
    /\ "snake_movement_input" \in ran
    /\ LET eaten == EatenFood(food, position)
       IN  /\ commands' = [commands EXCEPT !.despawn = eaten]
           /\ growth_events' = [growth_events EXCEPT !.b = @ + FoodCount(eaten)]
    /\ ran' = ran \cup {"snake_eating"}
    /\ UNCHANGED <<segments, position, direction, last_tail_position, food, keyboard_input,
                   delta, move_timer, food_timer, panicked, consumed>>

\* fault variant: unwrap_or_default() instead of unwrap()
GrowthStep_UnwrapOrDefault(segs, cmds, ltp) ==
    LET e == Len(segs) + 1
        p == IF ltp = None THEN Pos(0, 0) ELSE unwrap(ltp)
    IN  [panicked |-> FALSE,
         segments |-> Push(segs, e),
         commands |-> [cmds EXCEPT !.segment = @ \cup {SpawnSegment(e, p)}]]

(* line 273, segments.push(spawn_segment(commands, last_tail_position.0.unwrap())):
   the argument is evaluated first, so unwrap() on None panics before
   spawn_segment queues anything and before the push *)
GrowthStep(segs, cmds, ltp) ==
    IF ltp = None
    THEN [panicked |-> TRUE, segments |-> segs, commands |-> cmds]
    ELSE LET e == Len(segs) + 1
         IN  [panicked |-> FALSE,
              segments |-> Push(segs, e),
              commands |-> [cmds EXCEPT !.segment =
                               @ \cup {SpawnSegment(e, unwrap(ltp))}]]

(* snake_growth, lines 266-275, with spawn_segment, lines 127-140 *)
snake_growth ==
    /\ Running("snake_growth")
    /\ UNCHANGED frame_start
    /\ "snake_movement_input" \in ran
    /\ ran' = ran \cup {"snake_growth"}
    /\ IF Unread(growth_events) = 0
       THEN UNCHANGED <<segments, growth_events, commands, panicked, consumed>>
       ELSE LET r == GrowthStep(segments, commands, last_tail_position)
            IN  /\ growth_events' = ReadOne(growth_events)
                /\ consumed' = consumed + (Unread(growth_events) - Unread(growth_events'))
                /\ Len(r.segments) <= MaxLen
                /\ panicked' = r.panicked
                /\ segments' = r.segments
                /\ commands' = r.commands
    /\ UNCHANGED <<position, direction, last_tail_position, food, keyboard_input, delta,
                   move_timer, food_timer>>

(* the Commands queues applied at the end of Update *)
ApplyPosition(posn, cmds) ==
    [e \in DOMAIN posn |->
        IF \E c \in cmds.segment : c.entity = e
        THEN Some((CHOOSE c \in cmds.segment : c.entity = e).position)
        ELSE posn[e]]

ApplyFood(fd, cmds) == [c \in DOMAIN fd |-> fd[c] - cmds.despawn[c] + cmds.food[c]]

(* Events::update, run by the engine at the start of each frame *)
EventsUpdate(ev) == [a |-> ev.b, b |-> 0]

(* Frame boundary: the end of Update applies the deferred commands; the next
   frame starts with the events' buffer swap, a new Time::delta() and a new
   keyboard state *)
EndOfFrame ==
    /\ ~panicked
    /\ ran = Systems
    /\ position' = ApplyPosition(position, commands)
    /\ food' = ApplyFood(food, commands)
    /\ commands' = NoCommands
    /\ growth_events' = EventsUpdate(growth_events)
    /\ delta' \in Deltas
    /\ ran' = {}
    /\ UNCHANGED <<segments, direction, last_tail_position, keyboard_input, move_timer,
                   food_timer, panicked, consumed>>

NextFrame == EndOfFrame /\ UNCHANGED frame_start

(* Bound of the exploration: a movement tick is followed while it keeps the head
   inside the window *)
HeadStaysInWindow ==
    TimerFires(move_timer, delta, MOVE_PERIOD) =>
        InWindow(MoveHead(unwrap(position[HeadEntity]), direction))

Next ==
    \/ food_spawner
    \/ \E held \in SUBSET Keys : snake_movement_input(held)
    \/ (HeadStaysInWindow /\ snake_movement)
    \/ snake_eating
    \/ snake_growth
    \/ NextFrame

Spec == Init /\ [][Next]_vars

----------------------------------------------------------------------------
(* The Direction State Machine alone: snake_movement_input from every heading
   under every set of held keys, sample after sample *)
InitInput ==
    /\ segments = <<1, 2>>
    /\ position = [e \in SegmentEntities |->
                      IF e = 1 THEN Some(Pos(StartX, StartY))
                      ELSE IF e = 2 THEN Some(Pos(StartX, StartY - 1))
                      ELSE None]
    /\ last_tail_position = None
    /\ Idle
    /\ direction \in Directions
    /\ keyboard_input \in SUBSET Keys
    /\ delta = 0
    /\ ran = {"food_spawner"}

InputSample == snake_movement_input(keyboard_input)

\* the next frame's sample: the keys held then
InputPoll ==
    /\ ran = {"food_spawner", "snake_movement_input"}
    /\ keyboard_input' \in SUBSET Keys
    /\ delta' \in Deltas
    /\ ran' = {"food_spawner"}
    /\ UNCHANGED <<segments, position, direction, last_tail_position, food, growth_events,
                   commands, move_timer, food_timer, panicked, consumed, frame_start>>

NextInput ==
    \/ InputSample
    \/ InputPoll

SpecInput == InitInput /\ [][NextInput]_vars

----------------------------------------------------------------------------
(* The Movement Engine alone: one snake_movement pass on a chain of any length
   1..MaxLen, its segments at any of MoveCells (arena corners included), under
   any heading and any earlier Last Tail Position *)
MoveCells == {Pos(StartX, StartY), Pos(StartX, StartY - 1),
              Pos(0, 0), Pos(ARENA_WIDTH - 1, ARENA_HEIGHT - 1)}

InitMove ==
    /\ \E n \in 1..MaxLen : segments = [i \in 1..n |-> i]
    /\ position \in [SegmentEntities -> {None} \cup {Some(c) : c \in MoveCells}]
    /\ \A e \in SegmentEntities : position[e] # None <=> e <= Len(segments)
    /\ direction \in Directions
    /\ last_tail_position \in {None} \cup {Some(c) : c \in MoveCells}
    /\ Idle
    /\ keyboard_input = {}
    /\ delta \in Deltas
    /\ ran = {"food_spawner", "snake_movement_input"}

NextMove == snake_movement

SpecMove == InitMove /\ [][NextMove]_vars

----------------------------------------------------------------------------
(* The frames of Spec, each followed together with the state it started from *)
FrameState ==
    [segments |-> segments, position |-> position,
     last_tail_position |-> last_tail_position, food |-> food,
     growth_events |-> growth_events, move_timer |-> move_timer]

NextFrameTracked == EndOfFrame /\ frame_start' = Some(FrameState')

(* One frame from state s in the order snake_movement_input, snake_movement,
   snake_eating, snake_growth, which the executor may pick (it satisfies the
   only constraint, line 295), then the end of Update: dir is the heading the
   input sample left, dt the frame's Time::delta(), spawned what food_spawner
   queued *)
OrderedFrame(s, dir, dt, spawned) ==
    LET fires  == TimerFires(s.move_timer, dt, MOVE_PERIOD)
        moved  == IF fires THEN MovedPositions(s.segments, s.position, dir) ELSE s.position
        cached == IF fires THEN Some(TailBefore(s.segments, s.position))
                  ELSE s.last_tail_position
        eaten  == EatenFood(s.food, moved)
        sent   == [s.growth_events EXCEPT !.b = @ + FoodCount(eaten)]
        r      == IF Unread(sent) > 0
                  THEN GrowthStep(s.segments, NoCommands, cached)
                  ELSE [panicked |-> FALSE, segments |-> s.segments, commands |-> NoCommands]
        cmds   == [r.commands EXCEPT !.despawn = eaten, !.food = spawned]
    IN  [panicked           |-> r.panicked,
         segments           |-> r.segments,
         position           |-> ApplyPosition(moved, cmds),
         last_tail_position |-> cached,
         food               |-> ApplyFood(s.food, cmds)]

NextTracked ==
    \/ food_spawner
    \/ \E held \in SUBSET Keys : snake_movement_input(held)
    \/ (HeadStaysInWindow /\ snake_movement)
    \/ snake_eating
    \/ snake_growth
    \/ NextFrameTracked

SpecFrame == Init /\ [][NextTracked]_vars

----------------------------------------------------------------------------
(* The growth handler alone: one snake_growth pass on a chain of any length
   2..MaxLen, with zero to two unread events in the two buffers, and any Last
   Tail Position, None included *)
InitGrowth ==
    /\ \E n \in 2..MaxLen : segments = [i \in 1..n |-> i]
    /\ position \in [SegmentEntities -> {None} \cup {Some(c) : c \in MoveCells}]
    /\ \A e \in SegmentEntities : position[e] # None <=> e <= Len(segments)
    /\ direction = "Up"
    /\ last_tail_position \in {None} \cup {Some(c) : c \in MoveCells}
    /\ food = NoFood
    /\ growth_events \in [a : 0..1, b : 0..1]
    /\ commands = NoCommands
    /\ move_timer = 0
    /\ food_timer = 0
    /\ panicked = FALSE
    /\ consumed = 0
    /\ frame_start = None
    /\ keyboard_input = {}
    /\ delta \in Deltas
    /\ ran = {"food_spawner", "snake_movement_input"}

NextGrowth == snake_growth

SpecGrowth == InitGrowth /\ [][NextGrowth]_vars

----------------------------------------------------------------------------
(* Properties *)

\* a step in which the named system runs
Runs(system) == system \notin ran /\ system \in ran'

\* a step in which snake_movement's body runs to its end (a movement tick)
MovementTick ==
    /\ Runs("snake_movement")
    /\ move_timer + delta >= MOVE_PERIOD
    /\ ~panicked'

\* the opposite pairs, as the specification lists them: Left/Right and Up/Down
OppositePair(h, c) ==
    {h, c} = {"Left", "Right"} \/ {h, c} = {"Up", "Down"}

HeadingOfKey == [k \in Keys |->
    CASE k = "ArrowLeft"  -> "Left"
      [] k = "ArrowDown"  -> "Down"
      [] k = "ArrowUp"    -> "Up"
      [] k = "ArrowRight" -> "Right"]

\* C1 - Direction legality: an input sample with the one candidate heading h
\* (the key of h alone is held) under current heading c sets the heading to h
\* if and only if h is not the opposite of c; when it is, the heading stays c.
C1_DirectionLegality ==
    [][\A k \in Keys :
          (Runs("snake_movement_input") /\ keyboard_input = {k}) =>
              LET h == HeadingOfKey[k]
                  c == direction
              IN  /\ (direction' = h) <=> ~OppositePair(h, c)
                  /\ OppositePair(h, c) => direction' = c]_vars

\* C1 witness: heading Up was sampled with Down proposed (and stayed Up)
C1_Witness ==
    /\ "snake_movement_input" \in ran
    /\ keyboard_input = {"ArrowDown"}
    /\ direction = "Up"

\* C2 - Movement shift: after a movement tick on a chain of length n >= 1,
\* segment i (1 <= i <= n-1, counting the head as 0) is where segment i-1 was
\* before the tick, and the head is exactly one unit from where it was, in the
\* current heading (Left x-1, Right x+1, Up y+1, Down y-1), also at the arena's
\* edges (no clamping, no wraparound).
C2_MovementShift ==
    [][MovementTick =>
          LET n == Len(segments)
              before == unwrap(position[segments[1]])
              after  == unwrap(position'[segments[1]])
          IN  /\ \A i \in 2..n : position'[segments[i]] = position[segments[i - 1]]
              /\ direction = "Left"  => after = [x |-> before.x - 1, y |-> before.y]
              /\ direction = "Right" => after = [x |-> before.x + 1, y |-> before.y]
              /\ direction = "Up"    => after = [x |-> before.x, y |-> before.y + 1]
              /\ direction = "Down"  => after = [x |-> before.x, y |-> before.y - 1]]_vars

\* C2 witness: a chain of three has moved Left off the arena's edge x = 0
C2_Witness ==
    /\ "snake_movement" \in ran
    /\ Len(segments) = 3
    /\ position[1] = Some(Pos(-1, 0))
    /\ position[2] = Some(Pos(0, 0))
    /\ last_tail_position = Some(Pos(StartX, StartY))

\* C3 - Last Tail Position caching: after every movement tick, Last Tail
\* Position is the position the last segment of the chain had just before the
\* tick, whatever it held before; from head (3,3) heading Up and segment (3,2)
\* the tick gives head (3,4), segment (3,3) and Last Tail Position (3,2).
C3_LastTailCached ==
    [][MovementTick =>
          /\ last_tail_position' = position[segments[Len(segments)]]
          /\ ( /\ segments = <<1, 2>>
               /\ position[1] = Some(Pos(3, 3))
               /\ position[2] = Some(Pos(3, 2))
               /\ direction = "Up" )
             => ( /\ position'[1] = Some(Pos(3, 4))
                  /\ position'[2] = Some(Pos(3, 3))
                  /\ last_tail_position' = Some(Pos(3, 2)) )]_vars

\* C3 witness: the scenario's tick has run
C3_Witness ==
    /\ "snake_movement" \in ran
    /\ segments = <<1, 2>>
    /\ direction = "Up"
    /\ position[1] = Some(Pos(3, 4))
    /\ position[2] = Some(Pos(3, 3))
    /\ last_tail_position = Some(Pos(3, 2))

\* C4 - Eating detection: one pass of snake_eating queues for destruction
\* exactly the food markers on the head's cell and no other, and sends as many
\* Growth Signals as it destroys (none when no food is on the head's cell); the
\* markers are gone when the frame's commands are applied.
C4_EatingDetection ==
    [][/\ Runs("snake_eating") =>
            LET OnHead(c) == IF Some(c) = position[segments[1]] THEN food[c] ELSE 0
            IN  /\ \A c \in FoodCells :
                     commands'.despawn[c] - commands.despawn[c] = OnHead(c)
                /\ growth_events'.b - growth_events.b = SumOver([c \in FoodCells |-> OnHead(c)], FoodCells)
                /\ growth_events'.a = growth_events.a
                /\ food' = food
       /\ Runs("food_spawner") => commands'.despawn = commands.despawn
       /\ Runs("snake_growth") => commands'.despawn = commands.despawn
       /\ Runs("snake_movement") => commands'.despawn = commands.despawn
       /\ (ran = Systems /\ ran' = {}) =>
            \A c \in FoodCells : food'[c] = food[c] - commands.despawn[c] + commands.food[c]]_vars

\* C4 witness: two food markers were on the head's cell and both are queued for destruction
C4_Witness ==
    /\ "snake_eating" \in ran
    /\ \E c \in FoodCells : commands.despawn[c] = 2 /\ food[c] = 2
    /\ Unread(growth_events) >= 2

\* C5 - Growth placement: a pass of snake_growth appends one new segment per
\* Growth Signal it consumes, at the last index of the chain, and the new
\* segment gets as its position the value Last Tail Position holds when the
\* pass runs.
C5_GrowthPlacement ==
    [][/\ (Runs("snake_growth") /\ ~panicked') =>
            LET n == Len(segments)
            IN  /\ Len(segments') - n = consumed' - consumed
                /\ consumed' - consumed = Unread(growth_events) - Unread(growth_events')
                /\ consumed' > consumed =>
                     /\ Len(segments') = n + 1
                     /\ SubSeq(segments', 1, n) = segments
                     /\ \A i \in 1..n : segments[i] # segments'[n + 1]
                     /\ commands'.segment = commands.segment \cup
                           {[entity |-> segments'[n + 1], position |-> unwrap(last_tail_position)]}
       /\ (ran = Systems /\ ran' = {}) =>
            \A c \in commands.segment : position'[c.entity] = Some(c.position)]_vars

\* C5 witness: a consumed signal has appended a third segment whose position is
\* still to be attached
C5_Witness ==
    /\ "snake_growth" \in ran
    /\ Len(segments) = 3
    /\ consumed = 1
    /\ \E c \in commands.segment : c.entity = segments[3] /\ Some(c.position) = last_tail_position

\* C6 - Chain length over any run: the length never decreases, and at every
\* point it is 2 plus the number of Growth Signals snake_growth has consumed.
C6_ChainLength ==
    /\ [](Len(segments) = 2 + consumed)
    /\ [][Len(segments') >= Len(segments)]_vars

\* C6 witness: one signal consumed, three segments
C6_Witness ==
    /\ consumed = 1
    /\ Len(segments) = 3
    /\ ran = {}

\* C7 - Several signals in one frame, as claimed: a pass of snake_growth with
\* N > 1 Growth Signals pending appends N segments.
C7_OnePerPendingSignal ==
    [][(Runs("snake_growth") /\ Unread(growth_events) > 1 /\ ~panicked') =>
          Len(segments') = Len(segments) + Unread(growth_events)]_vars

\* C8 - Last Tail Position validity: whenever a Growth Signal is pending
\* (sent and not yet read), Last Tail Position is not empty.
C8_TailCachedWhenPending ==
    Unread(growth_events) > 0 => last_tail_position # None

\* C8 witness: a signal is pending
C8_Witness ==
    /\ Unread(growth_events) > 0
    /\ ~panicked

\* C9 - Chain shape: the Segment Chain is never empty and its first element
\* is the head segment, the only entity that owns the heading.
C9_ChainShape ==
    /\ Len(segments) >= 1
    /\ segments[1] = HeadEntity
    /\ \A i \in 2..Len(segments) : segments[i] # HeadEntity

\* C9 witness: after turns, ticks, eating and growth the grown chain has all
\* its positions
C9_Witness ==
    /\ Len(segments) = 3
    /\ position[segments[3]] # None
    /\ direction = "Left"
    /\ position[HeadEntity] # Some(Pos(StartX, StartY))

KeyPriority == <<"ArrowLeft", "ArrowDown", "ArrowUp", "ArrowRight">>

\* C10 - Key priority: the proposed heading is that of the first held key in
\* the order Left, Down, Up, Right; with no key held the heading is unchanged;
\* the heading after the sample is that candidate if it is legal and the
\* unchanged heading otherwise, never the heading of a lower-priority key.
C10_KeyPriority ==
    [][Runs("snake_movement_input") =>
          LET held == {i \in 1..4 : KeyPriority[i] \in keyboard_input}
          IN  IF held = {} THEN direction' = direction
              ELSE LET first == CHOOSE i \in held : \A j \in held : i <= j
                       candidate == HeadingOfKey[KeyPriority[first]]
                   IN  direction' = IF OppositePair(candidate, direction)
                                    THEN direction ELSE candidate]_vars

\* C10 witness: Left and Up were held while heading Right: the candidate Left
\* was refused and the heading stayed Right, not Up
C10_Witness ==
    /\ "snake_movement_input" \in ran
    /\ keyboard_input = {"ArrowLeft", "ArrowUp"}
    /\ direction = "Right"

\* C11 - Fixed intra-frame ordering, as claimed: in every frame
\* snake_movement_input runs first, then snake_movement (when its timer has
\* elapsed), then snake_eating, then snake_growth, and in no other order.
C11_FixedOrder ==
    [][/\ Runs("snake_movement") => "snake_movement_input" \in ran
       /\ Runs("snake_eating") =>
            /\ "snake_movement_input" \in ran
            /\ "snake_movement" \notin ran => move_timer + delta < MOVE_PERIOD
       /\ Runs("snake_growth") =>
            /\ "snake_movement_input" \in ran
            /\ "snake_eating" \in ran
            /\ "snake_movement" \notin ran => move_timer + delta < MOVE_PERIOD]_vars

\* C12 - Determinism, as claimed: the state a frame ends in (chain, positions
\* in chain order, Last Tail Position, foods) is the one the same frame reaches
\* from the same start, with the same heading sampled, the same Time::delta()
\* and the same food spawned, when its systems run in the order input,
\* movement, eating, growth: whatever order the executor picked.
C12_Determinism ==
    [][(ran = Systems /\ ran' = {} /\ frame_start # None) =>
          LET c == OrderedFrame(unwrap(frame_start), direction, delta, commands.food)
          IN  /\ ~c.panicked
              /\ segments' = c.segments
              /\ SegmentPositions(segments', position') = SegmentPositions(c.segments, c.position)
              /\ last_tail_position' = c.last_tail_position
              /\ food' = c.food]_vars

\* the heading of the tick that brought the head from cell p to cell q
TickHeadings(p, q) ==
    {h \in Directions :
        \/ h = "Left"  /\ q = [x |-> p.x - 1, y |-> p.y]
        \/ h = "Right" /\ q = [x |-> p.x + 1, y |-> p.y]
        \/ h = "Up"    /\ q = [x |-> p.x, y |-> p.y + 1]
        \/ h = "Down"  /\ q = [x |-> p.x, y |-> p.y - 1]}

\* C13 - Double reversal is blocked, as claimed: the heading a movement tick
\* moves the head with is never the opposite of the heading of the tick before
\* it (the one that left segment 1 where the head was), however many input
\* samples were taken in between; the head never steps back onto segment 1.
C13_NoDoubleReversal ==
    [][(MovementTick /\ last_tail_position # None /\ Len(segments) >= 2) =>
          /\ \A h \in TickHeadings(unwrap(position[segments[2]]), unwrap(position[segments[1]])) :
                ~OppositePair(direction, h)
          /\ position'[segments[1]] # position[segments[2]]]_vars

\* C15 - Chain frame condition: a step changes the Segment Chain only if it is
\* snake_growth's, and then the old chain is a prefix of the new one; no handle
\* is removed, reordered or duplicated.
C15_ChainFrame ==
    [][/\ segments' # segments => Runs("snake_growth")
       /\ Len(segments') >= Len(segments)
       /\ SubSeq(segments', 1, Len(segments)) = segments
       /\ \A i, j \in 1..Len(segments') : segments'[i] = segments'[j] => i = j]_vars

\* C15 witness: the frame's five systems have run on a chain that has grown
C15_Witness ==
    /\ ran = Systems
    /\ Len(segments) = 3
    /\ last_tail_position # None
    /\ FoodCount(food) > 0

Distance(p, q) ==
    (IF p.x >= q.x THEN p.x - q.x ELSE q.x - p.x) + (IF p.y >= q.y THEN p.y - q.y ELSE q.y - p.y)

\* C16 - Chain contiguity: any two consecutive segments of the chain that both
\* have a position are at Manhattan distance at most 1.
C16_Contiguity ==
    \A i \in 1..(Len(segments) - 1) :
        (position[segments[i]] # None /\ position[segments[i + 1]] # None) =>
            Distance(unwrap(position[segments[i]]), unwrap(position[segments[i + 1]])) <= 1

\* C16 witness: a grown segment has its position, and the chain has moved since
C16_Witness ==
    /\ Len(segments) = 3
    /\ position[segments[3]] # None
    /\ position[segments[3]] # last_tail_position
    /\ position[segments[3]] # position[segments[2]]

\* C17 - Movement never meets a segment without a position, as claimed:
\* whenever snake_movement's body runs, every handle of the chain has a Position.
C17_MovementFindsPositions ==
    [][(Runs("snake_movement") /\ move_timer + delta >= MOVE_PERIOD) =>
          \A i \in 1..Len(segments) : position[segments[i]] # None]_vars

\* C18 - No growth signal is lost, as claimed: a Growth Signal that has been
\* sent stays readable until snake_growth reads it; no frame boundary discards
\* an unread signal (a discarded signal is never consumed and appends nothing).
C18_NoSignalLost ==
    [][(ran = Systems /\ ran' = {}) =>
          Unread(growth_events') = Unread(growth_events)]_vars

(* C14: a snake_growth pass that reads a GrowthEvent while Last Tail Position
   is None ends in a panic and leaves the Segment Chain, the queued commands
   and every Position as they were: nothing is appended, at no position *)
C14_FailFastGrowth ==
    [][(Runs("snake_growth") /\ Unread(growth_events) > 0 /\ last_tail_position = None) =>
          /\ panicked'
          /\ segments' = segments
          /\ commands' = commands
          /\ position' = position]_vars

\* a pass has read an event on an empty Last Tail Position
C14_Witness ==
    /\ "snake_growth" \in ran
    /\ last_tail_position = None
    /\ consumed = 1
    /\ panicked
    /\ Len(segments) = 2

====
